---- MODULE Spec2Model ----
(***************************************************************************)
(* Model of the deep-swamp canvas world (SwampCanvas component and the     *)
(* math utilities): the chunk store streamed around the camera, the        *)
(* per-frame render queue, the perspective projection and the crab agent.  *)
(*                                                                         *)
(* The frame callback `render` runs to completion on the single UI thread. *)
(* Its parts read and write disjoint data (manageChunks: cam.x, cam.z,     *)
(* lastChunkCheck, chunksRef; the crab update: one crab's fields; the      *)
(* render queue: cam.z, fogDensity and the submitted positions), so each   *)
(* part is checked under a specification of its own, which holds the state *)
(* of the other parts still.                                               *)
(*                                                                         *)
(* Numbers: world coordinates are integers (exactly representable          *)
(* doubles); a quotient the code leaves fractional is kept as an exact     *)
(* fraction <<num, den>>; NaN is a value of its own.                       *)
(***************************************************************************)
EXTENDS Integers, Sequences, FiniteSets, TLC

\* ------------------------------------------------------------ constants
CHUNK_SIZE == 3000
RENDER_DISTANCE_CHUNKS == 1
VISIBILITY_DEPTH == 3500
MAX_SPEED == 20
DEFAULT_FOCAL_LENGTH == 800
\* the value lastChunkCheckX/Z hold before the first sync of an effect run
NoChunkCheck == -9999
\* cameraRef's initial x and z
CamInitX == 0
CamInitZ == -800

\* ------------------------------------------------------------ bounds
\* the window of world positions the camera is followed in: CamNear to either
\* side of a cell border it starts on, CamBack behind its start, CamFar ahead
\* (past the next cell border)
CamNear == 20
CamBack == 820
CamFar == 3020
\* the grid cells the properties range over: -CellReach..CellReach
CellReach == 4
\* the most entities, besides the fish, submitted to the render queue in a frame
MaxScene == 3

\* ------------------------------------------------------------ helpers
Abs(n) == IF n < 0 THEN -n ELSE n

Max(a, b) == IF a >= b THEN a ELSE b

Min(a, b) == IF a <= b THEN a ELSE b

\* A double that may be NaN: <<n>> is the number n, <<>> is NaN
NaN == <<>>

Num(n) == <<n>>

IsNaN(v) == v = NaN

Val(v) == v[1]

\* a - b, a + b on doubles: NaN if either operand is
FSub(a, b) == IF IsNaN(a) \/ IsNaN(b) THEN NaN ELSE Num(Val(a) - Val(b))

FAdd(a, b) == IF IsNaN(a) \/ IsNaN(b) THEN NaN ELSE Num(Val(a) + Val(b))

\* a < n, a > n on doubles: false when a is NaN
FLess(a, n) == ~IsNaN(a) /\ Val(a) < n

FGreater(a, n) == ~IsNaN(a) /\ Val(a) > n

\* Math.floor(Math.sqrt(n)) for 0 <= n < 2^31, by bisection on lo..hi (46340
\* is the largest integer whose square is below 2^31)
RECURSIVE SqrtIn(_, _, _)
SqrtIn(n, lo, hi) ==
    IF lo >= hi THEN lo
    ELSE LET mid == (lo + hi + 1) \div 2
         IN  IF mid * mid <= n THEN SqrtIn(n, mid, hi) ELSE SqrtIn(n, lo, mid - 1)

ISqrt(n) == SqrtIn(n, 0, Min(n, 46340))

\* a / b for b > 0, rounded to the nearest integer (positions are kept on the
\* integer grid)
RoundDiv(a, b) ==
    LET mag == (2 * Abs(a) + b) \div (2 * b)
    IN  IF a < 0 THEN -mag ELSE mag

RECURSIVE GCD(_, _)
GCD(a, b) == IF b = 0 THEN a ELSE GCD(b, a % b)

\* the fraction n / d, d > 0, in lowest terms
Frac(n, d) ==
    LET g == GCD(Abs(n), d)
    IN  <<n \div g, d \div g>>

\* Math.floor(p / CHUNK_SIZE): \div rounds towards minus infinity
ChunkIndex(p) == p \div CHUNK_SIZE

\* the Map key `${x},${z}` of a cell
ChunkKey(x, z) == <<x, z>>

\* Chebyshev distance of a stored chunk from the camera cell (the prune loop)
ChunkDist(chunk, cx, cz) == Max(Abs(chunk.xIndex - cx), Abs(chunk.zIndex - cz))

VARIABLES
    cam,              \* cameraRef.current: [x, z]
    lastChunkCheckX,  \* cell of the last triggered sync of this effect run
    lastChunkCheckZ,
    chunks,           \* chunksRef.current: key -> Chunk
    generated,        \* keys generateChunk was called for in the latest manageChunks
    evicted,          \* keys deleted by the latest manageChunks
    syncCell,         \* camera cell of the latest manageChunks call
    syncRan,          \* whether the latest manageChunks call passed its early return
    prevSyncCell      \* the cell the camera was in before it entered syncCell

VARIABLES
    env,              \* envRef.current: [skyHue, fogDensity, gravityMult]
    fish,             \* a fish of a stored chunk: [x, z, targetX, targetZ, speed]
    scene,            \* world z of the other entities submitted each frame
    renderQueue,      \* the latest frame's renderQueue after its sort
    frameLog,         \* the latest frame's submissions and draws, in order
    tailPhase         \* the fish's tailPhase in tenths, <<t>>; <<>> where it is not followed

VARIABLES
    crab,             \* a crab of a stored chunk
    crabWalks,        \* how many times the crab has set out
    projArgs,         \* the arguments of the latest project3DTo2D call
    projOut,          \* its result
    projPrev,         \* the result for the arguments before they were translated
    projShifts        \* how many times the arguments were translated

VARIABLES
    body,             \* the camera's physics fields other than x and z
    keys,             \* keysRef: the codes of the keys held down
    ui,               \* uiRef: the on-screen buttons held down
    mouse,            \* mouseRef: the pointer, in [-1, 1] x [-1, 1]
    isChatOpen,       \* the chat panel has the input focus
    physFrames        \* how many frames the controls have been followed for

VARIABLES
    envArgs,          \* the arguments of the latest updateEnvironment call
    spawnArgs,        \* the arguments of the latest spawnCreature call
    textResponse,     \* what the latest function call added to the reply
    holograms,        \* hologramsRef: the holograms, in the order they were added
    imagesPending     \* the generateImages requests that have not settled

chunkVars == <<cam, lastChunkCheckX, lastChunkCheckZ, chunks, generated, evicted,
               syncCell, syncRan, prevSyncCell>>

renderVars == <<env, fish, scene, renderQueue, frameLog, tailPhase>>

crabVars == <<crab, crabWalks>>

projVars == <<projArgs, projOut, projPrev, projShifts>>

physVars == <<body, keys, ui, mouse, isChatOpen, physFrames>>

chatVars == <<envArgs, spawnArgs, textResponse, holograms, imagesPending>>

vars == <<chunkVars, renderVars, crabVars, projVars, physVars, chatVars>>

\* ------------------------------------------------------------ chunk store
\* generateChunk with its two indices exchanged
generateChunkSwapped(cx, cz) ==
    [id |-> ChunkKey(cx, cz), xIndex |-> cz, zIndex |-> cx, fishes |-> <<>>, crabs |-> <<>>]

\* generateChunk(cx, cz): the chunk's identity and its entity lists.  The
\* lists hold the entities added to the chunk after its generation; the fish
\* and crabs it is generated with are followed one at a time, as fish and crab
generateChunk(cx, cz) ==
    [id |-> ChunkKey(cx, cz), xIndex |-> cx, zIndex |-> cz, fishes |-> <<>>, crabs |-> <<>>]

\* a generation loop that leaves out the camera's own cell
ActiveKeysRing(cx, cz) ==
    {ChunkKey(x, z) : x \in (cx - RENDER_DISTANCE_CHUNKS)..(cx + RENDER_DISTANCE_CHUNKS),
                      z \in (cz - RENDER_DISTANCE_CHUNKS)..(cz + RENDER_DISTANCE_CHUNKS)}
        \ {ChunkKey(cx, cz)}

\* the cells of the generation loop: the square of radius R around (cx, cz)
ActiveKeys(cx, cz) ==
    {ChunkKey(x, z) : x \in (cx - RENDER_DISTANCE_CHUNKS)..(cx + RENDER_DISTANCE_CHUNKS),
                      z \in (cz - RENDER_DISTANCE_CHUNKS)..(cz + RENDER_DISTANCE_CHUNKS)}

\* the generation loop without its test: every active cell is generated anew
NeedsChunkAlways(store, k) == TRUE

\* the test of the generation loop: !chunksRef.current.has(key)
NeedsChunk(store, k) == k \notin DOMAIN store

\* the keys the generation loop calls generateChunk for
MissingKeys(store, cx, cz) == {k \in ActiveKeys(cx, cz) : NeedsChunk(store, k)}

\* a generation loop that replaces the chunk of every active cell
AfterGenerateFresh(store, cx, cz) ==
    [k \in (DOMAIN store) \cup ActiveKeys(cx, cz) |->
        IF k \in ActiveKeys(cx, cz)
        THEN generateChunk(k[1], k[2])
        ELSE store[k]]

\* the map after the generation loop
AfterGenerate(store, cx, cz) ==
    [k \in (DOMAIN store) \cup ActiveKeys(cx, cz) |->
        IF k \in ActiveKeys(cx, cz) /\ NeedsChunk(store, k)
        THEN generateChunk(k[1], k[2])
        ELSE store[k]]

\* the prune loop with a margin of two cells instead of one
PrunedKeysLate(store, cx, cz) ==
    {k \in DOMAIN store : ChunkDist(store[k], cx, cz) > RENDER_DISTANCE_CHUNKS + 2}

\* the prune loop without a margin
PrunedKeysTight(store, cx, cz) ==
    {k \in DOMAIN store : ChunkDist(store[k], cx, cz) > RENDER_DISTANCE_CHUNKS}

\* the keys the prune loop deletes from the map it iterates
PrunedKeys(store, cx, cz) ==
    {k \in DOMAIN store : ChunkDist(store[k], cx, cz) > RENDER_DISTANCE_CHUNKS + 1}

\* a prune loop that deletes nothing
AfterPruneKeepsAll(store, cx, cz) == store

\* the map after the prune loop
AfterPrune(store, cx, cz) ==
    [k \in (DOMAIN store) \ PrunedKeys(store, cx, cz) |-> store[k]]

\* manageChunks(), called with the camera at c (the camera after the frame's
\* physics)
manageChunks(c) ==
    LET cx == ChunkIndex(c.x)
        cz == ChunkIndex(c.z)
        gen == AfterGenerate(chunks, cx, cz)
    IN  /\ syncCell' = <<cx, cz>>
        /\ prevSyncCell' = IF <<cx, cz>> # syncCell THEN syncCell ELSE prevSyncCell
        /\ IF cx = lastChunkCheckX /\ cz = lastChunkCheckZ
           THEN /\ syncRan' = FALSE
                /\ generated' = {}
                /\ evicted' = {}
                /\ UNCHANGED <<lastChunkCheckX, lastChunkCheckZ, chunks>>
           ELSE /\ syncRan' = TRUE
                /\ lastChunkCheckX' = cx
                /\ lastChunkCheckZ' = cz
                /\ generated' = MissingKeys(chunks, cx, cz)
                /\ evicted' = PrunedKeys(gen, cx, cz)
                /\ chunks' = AfterPrune(gen, cx, cz)

\* the displacements one frame can give the camera on an axis: the velocity
\* is clamped to [-MAX_SPEED, MAX_SPEED] before it is added to the position
CamVelocities == {-MAX_SPEED, 0, MAX_SPEED}

\* render(): the camera is moved by its clamped velocity, then manageChunks
\* runs on the new position
renderChunksIn(xlo, xhi, zlo, zhi) ==
    \E vx \in CamVelocities, vz \in CamVelocities :
        LET moved == [cam EXCEPT !.x = cam.x + vx, !.z = cam.z + vz]
        IN  /\ moved.x \in xlo..xhi
            /\ moved.z \in zlo..zhi
            /\ cam' = moved
            /\ manageChunks(moved)
            /\ UNCHANGED <<renderVars, crabVars, projVars, physVars, chatVars>>

renderChunks == renderChunksIn(-CamNear, CamNear, -CamBack, CamFar)

\* the same frame, for the store exercised from cell (0,0)
renderChunksUnit == renderChunksIn(-CamNear, CamFar, -CamNear, CamNear)

\* the frames of a camera that stands where it starts
renderChunksStanding == renderChunksIn(-CamInitX, CamInitX, CamInitZ, CamInitZ)

\* the drawing effect is torn down and run again when chunkInfo or isChatOpen
\* changes: its locals start over, the refs (camera, chunks) are kept
effectRerun ==
    /\ lastChunkCheckX' = NoChunkCheck
    /\ lastChunkCheckZ' = NoChunkCheck
    /\ UNCHANGED <<cam, chunks, generated, evicted, syncCell, syncRan, prevSyncCell>>
    /\ UNCHANGED <<renderVars, crabVars, projVars, physVars, chatVars>>

\* ------------------------------------------------------------ holograms
\* how many holograms are followed
MaxHolograms == 2

\* an opacity is held in units of 1/400: this is the opacity 1
OpacityOne == 400

\* the 0.01 of the fade-in, in the same units
FadeIn == OpacityOne \div 100

\* h.opacity + 0.01 is a sum of doubles, rounded: the model lets each sum be
\* off by one unit either way, which is more than the rounding can be
FadeSteps == {FadeIn - 1, FadeIn, FadeIn + 1}

\* a fade that does nothing
FadedNot(opacity, step) == opacity

\* Math.min(1, h.opacity + 0.01)
Faded(opacity, step) == Min(OpacityOne, opacity + step)

\* the hologram pushed by img.onload, placed in front of the camera; its y,
\* size and image play no part in its opacity and are left out
NewHologram(c) == [x |-> c.x, z |-> c.z + 800, opacity |-> 0]

\* handleSendMessage, the generateHologram call: the reply is extended and
\* the image request is sent, to settle later
generateHologram ==
    /\ imagesPending + Len(holograms) < MaxHolograms
    /\ imagesPending' = imagesPending + 1
    /\ textResponse' = <<"Generating Huge Hologram...">>
    /\ UNCHANGED <<envArgs, spawnArgs, holograms>>
    /\ UNCHANGED <<chunkVars, renderVars, crabVars, projVars, physVars>>

\* the request settled with image bytes and the image loaded: img.onload
\* pushes the hologram
imageLoaded ==
    /\ imagesPending > 0
    /\ imagesPending' = imagesPending - 1
    /\ holograms' = Append(holograms, NewHologram(cam))
    /\ UNCHANGED <<envArgs, spawnArgs, textResponse>>
    /\ UNCHANGED <<chunkVars, renderVars, crabVars, projVars, physVars>>

\* the request settled without image bytes, or was rejected: nothing is pushed
imageFailed ==
    /\ imagesPending > 0
    /\ imagesPending' = imagesPending - 1
    /\ UNCHANGED <<envArgs, spawnArgs, textResponse, holograms>>
    /\ UNCHANGED <<chunkVars, renderVars, crabVars, projVars, physVars>>

\* render(), for a camera that stands: manageChunks runs, then every hologram
\* is faded in before it is submitted for drawing
hologramFrame ==
    \E steps \in [1..Len(holograms) -> FadeSteps] :
        /\ cam' = cam
        /\ manageChunks(cam)
        /\ holograms' = [i \in 1..Len(holograms) |->
                            [holograms[i] EXCEPT !.opacity = Faded(@, steps[i])]]
        /\ UNCHANGED <<envArgs, spawnArgs, textResponse, imagesPending>>
        /\ UNCHANGED <<renderVars, crabVars, projVars, physVars>>

\* ------------------------------------------------------------ environment
\* an argument the function call leaves out
Undefined == <<>>

\* fogDensity and gravityMult are fractions <<n, d>> with d > 0; skyHue is a
\* whole number of degrees, held as <<hue, 1>>
EnvInit == [skyHue |-> <<180, 1>>, fogDensity |-> <<1, 1>>, gravityMult |-> <<1, 1>>]

\* an update that puts the fields it is not given back to their defaults
updateEnvironmentToReset(skyHue, fogDensity, gravityMult) ==
    [skyHue |-> IF skyHue # Undefined THEN skyHue ELSE EnvInit.skyHue,
     fogDensity |-> IF fogDensity # Undefined THEN fogDensity ELSE EnvInit.fogDensity,
     gravityMult |-> IF gravityMult # Undefined THEN gravityMult ELSE EnvInit.gravityMult]

\* handleSendMessage, the updateEnvironment call: each argument that is given
\* overwrites its field, whatever its value
updateEnvironmentTo(skyHue, fogDensity, gravityMult) ==
    [skyHue |-> IF skyHue # Undefined THEN skyHue ELSE env.skyHue,
     fogDensity |-> IF fogDensity # Undefined THEN fogDensity ELSE env.fogDensity,
     gravityMult |-> IF gravityMult # Undefined THEN gravityMult ELSE env.gravityMult]

\* ------------------------------------------------------------ spawning
\* how many spawned fish the store is followed with
MaxSpawned == 2

\* how far along z the camera travels when spawned fish are followed
CamTrip == 6020

\* the number of times the body of for (let i = 0; i < count; i++) runs, for a
\* count <<n, d>>, d > 0: none for a count that is not given
LoopRuns(count) ==
    IF count = Undefined THEN 0 ELSE Max(0, -((-count[1]) \div count[2]))

\* the type test inside the loop: type === 'fish'
PushesEntity(type) == type = "fish"

\* the fish pushed by spawnCreature, with hue || randomRange(0, 360); its
\* position and target, set from the camera's, play no part in what the store
\* does with it and are left out
SpawnedFish(hue, randomHue) ==
    [hue |-> IF hue = Undefined \/ hue = <<0, 1>> THEN randomHue ELSE hue]

\* a new list of the n items takes the place of the list
PushTimesFresh(list, item, n) == [i \in 1..Max(0, n) |-> item]

\* the list after n pushes
RECURSIVE PushTimes(_, _, _)
PushTimes(list, item, n) ==
    IF n <= 0 THEN list ELSE PushTimes(Append(list, item), item, n - 1)

\* the fish of the whole store
RECURSIVE CountFishes(_, _)
CountFishes(store, ks) ==
    IF ks = {} THEN 0
    ELSE LET k == CHOOSE k \in ks : TRUE
         IN  Len(store[k].fishes) + CountFishes(store, ks \ {k})

\* the arguments of the assistant's spawnCreature calls
SpawnTypes == {"fish", "crab"}

SpawnCounts == {<<1, 1>>, <<2, 1>>}

SpawnHues == {<<200, 1>>}

\* values of randomRange(0, 360)
RandomHues == {<<90, 1>>}

\* a reply that does not depend on the chunk being there
SpawnReplyAlways(found, count, type) == <<"Spawned", count, type>>

\* what the call adds to the reply
SpawnReply(found, count, type) ==
    IF found THEN <<"Spawned", count, type>>
    ELSE <<"Could not spawn - no active chunk">>

\* handleSendMessage, the spawnCreature call
spawnCreature ==
    \E type \in SpawnTypes, count \in SpawnCounts, hue \in SpawnHues, randomHue \in RandomHues :
        LET cx == ChunkIndex(cam.x)
            cz == ChunkIndex(cam.z)
            key == ChunkKey(cx, cz)
            runs == IF PushesEntity(type) THEN LoopRuns(count) ELSE 0
        IN  /\ CountFishes(chunks, DOMAIN chunks) + runs <= MaxSpawned
            /\ spawnArgs' = <<[type |-> type, count |-> count, hue |-> hue]>>
            /\ IF key \in DOMAIN chunks
               THEN chunks' = [chunks EXCEPT ![key].fishes =
                                  PushTimes(@, SpawnedFish(hue, randomHue), runs)]
               ELSE chunks' = chunks
            /\ textResponse' = SpawnReply(key \in DOMAIN chunks, count, type)
            /\ UNCHANGED <<cam, lastChunkCheckX, lastChunkCheckZ, generated, evicted,
                           syncCell, syncRan, prevSyncCell>>
            /\ UNCHANGED <<envArgs, holograms, imagesPending>>
            /\ UNCHANGED <<renderVars, crabVars, projVars, physVars>>

\* the frames of a camera that travels along z, three cells and back
renderChunksTrip == renderChunksIn(CamInitX, CamInitX, -CamBack, CamTrip)

\* ------------------------------------------------------------ fish
\* (d / dist) * speed * 0.5 for dist > 0, rounded onto the integer grid
FishStep(d, dist, speed) == RoundDiv(d * speed, 2 * dist)

\* an arrival test that is twice as wide
FishArrivedWide(distSq) == distSq < 40 * 40

\* dist < 20, on the square of the distance
FishArrived(distSq) == distSq < 20 * 20

\* the fish update of one frame: dx, dz and dist are taken before the target is
\* replaced; the move divides by dist without testing it, so dist = 0 gives
\* 0/0 = NaN in x and z; then the camera avoidance.  rx, rz are the values of
\* randomRange(0, CHUNK_SIZE) used if the target is replaced.
fishUpdate(f, chunk, c, rx, rz) ==
    LET dx == FSub(f.targetX, f.x)
        dz == FSub(f.targetZ, f.z)
        nan == IsNaN(dx) \/ IsNaN(dz)
        distSq == IF nan THEN 0 ELSE Val(dx) * Val(dx) + Val(dz) * Val(dz)
        dist == ISqrt(distSq)
        arrived == ~nan /\ FishArrived(distSq)
        tx == IF arrived THEN Num(chunk.xIndex * CHUNK_SIZE + rx) ELSE f.targetX
        tz == IF arrived THEN Num(chunk.zIndex * CHUNK_SIZE + rz) ELSE f.targetZ
        mx == IF nan \/ distSq = 0 THEN NaN
              ELSE Num(Val(f.x) + FishStep(Val(dx), dist, f.speed))
        mz == IF nan \/ distSq = 0 THEN NaN
              ELSE Num(Val(f.z) + FishStep(Val(dz), dist, f.speed))
        camDx == FSub(mx, Num(c.x))
        camDz == FSub(mz, Num(c.z))
        near == /\ ~IsNaN(camDx) /\ ~IsNaN(camDz)
                /\ Val(camDx) * Val(camDx) + Val(camDz) * Val(camDz) < 200 * 200
        ax == IF near THEN Num(Val(mx) + (IF Val(camDx) > 0 THEN 5 ELSE -5)) ELSE mx
    IN  [x |-> ax, z |-> mz, targetX |-> tx, targetZ |-> tz, speed |-> f.speed]

\* ------------------------------------------------------------ render queue
\* Math.max(0, 1 - relZ / (VISIBILITY_DEPTH / fogDensity)) as an exact fraction
\* <<num, den>>, den > 0, for fogDensity = <<n, d>>; NaN when relZ is NaN.
\* (fogDensity 0 divides to Infinity and relZ / Infinity is 0: the factor is 1.)
DistFactor(relZ, fogDensity) ==
    IF IsNaN(relZ) THEN NaN
    ELSE LET den == VISIBILITY_DEPTH * fogDensity[2]
             num == den - Val(relZ) * fogDensity[1]
         IN  <<Max(0, num), den>>

\* the visibility cull of pushRenderItem: relZ < 1 || relZ > VISIBILITY_DEPTH
Culled(relZ) == FLess(relZ, 1) \/ FGreater(relZ, VISIBILITY_DEPTH)

\* pushRenderItem: the queue after the submission of item = [src, z]
pushRenderItem(queue, item, c, fogDensity) ==
    LET relZ == FSub(item.z, Num(c.z))
    IN  IF Culled(relZ) THEN queue
        ELSE Append(queue, [src |-> item.src, z |-> relZ,
                            distFactor |-> DistFactor(relZ, fogDensity)])

\* the queue after the submissions subs, in order
RECURSIVE PushAll(_, _, _, _)
PushAll(queue, subs, c, fogDensity) ==
    IF subs = <<>> THEN queue
    ELSE PushAll(pushRenderItem(queue, Head(subs), c, fogDensity), Tail(subs),
                 c, fogDensity)

\* the comparator (a, b) => b.z - a.z puts a first when a.z > b.z; the sort is
\* stable, so an item goes behind the items it does not precede
RECURSIVE InsertByZ(_, _)
InsertByZ(sorted, item) ==
    IF sorted = <<>> THEN <<item>>
    ELSE IF Val(item.z) > Val(Head(sorted).z)
         THEN <<item>> \o sorted
         ELSE <<Head(sorted)>> \o InsertByZ(Tail(sorted), item)

RECURSIVE SortByZ(_, _)
SortByZ(sorted, rest) ==
    IF rest = <<>> THEN sorted
    ELSE SortByZ(InsertByZ(sorted, Head(rest)), Tail(rest))

HasNaN(queue) == \E i \in 1..Len(queue) : IsNaN(queue[i].z)

Reorderings(queue) ==
    LET n == Len(queue)
        perms == {p \in [1..n -> 1..n] : \A i, j \in 1..n : i # j => p[i] # p[j]}
    IN  {[i \in 1..n |-> queue[p[i]]] : p \in perms}

\* renderQueue.sort((a, b) => b.z - a.z): with a NaN key the comparator
\* returns NaN, is not a consistent comparison, and the order of the result
\* is implementation-defined
SortOutcomes(queue) ==
    IF HasNaN(queue) THEN Reorderings(queue) ELSE {SortByZ(<<>>, queue)}

\* the frame's pushRenderItem calls, with the fogDensity the frame read
SubmitEvents(subs, fogDensity) ==
    [i \in 1..Len(subs) |-> [ev |-> "submit", src |-> subs[i].src, z |-> subs[i].z,
                            distFactor |-> NaN, fogDensity |-> fogDensity]]

\* renderQueue.forEach(item => item.draw())
DrawEvents(queue, fogDensity) ==
    [i \in 1..Len(queue) |-> [ev |-> "draw", src |-> queue[i].src, z |-> queue[i].z,
                             distFactor |-> queue[i].distFactor,
                             fogDensity |-> fogDensity]]

\* the chunk the fish lives in
FishChunk == generateChunk(0, -1)

\* the frame's submissions in order: the entities submitted before the fish
\* (water tiles, crabs), the fish, the entities submitted after it (plants,
\* particles, holograms); src numbers the submissions
Submissions(f) ==
    LET all == scene.pre \o <<f.z>> \o scene.post
    IN  [i \in 1..Len(all) |-> [src |-> i, z |-> all[i]]]

\* the number the fish's submission has
FishSrc == Len(scene.pre) + 1

\* values of randomRange(0, CHUNK_SIZE) for a fish's x and z in its chunk
FishRandX == {190}

FishRandZ == {2300}

\* values of randomRange(-500, 500), the first target's offset from the fish
FishTargetOffsets == {0, 30}

\* the same for x: the fish of the model swims along z
FishTargetOffsetsX == {0}

\* values of randomRange(4, 8)
FishSpeeds == {4}

\* world z of the entities of a scene: at the camera's z (-800), and 1, 50,
\* 200, 3500 and 3501 ahead of it
ItemZs == {-800, -799, -750, -600, 2700, 2701}

\* the arguments the assistant's updateEnvironment calls are drawn from
SkyHueArgs == {Undefined}

FogDensityArgs == {Undefined, <<2, 1>>, <<-1, 1>>}

GravityMultArgs == {Undefined}

SeqsUpTo(S, n) == UNION {[1..k -> S] : k \in 0..n}

\* a draw closure that advances the tail whether it runs or not
TailAfterAlways(tail, drawn) ==
    IF tail = <<>> THEN tail ELSE <<tail[1] + 2>>

\* fish.tailPhase += 0.2 in the fish's draw closure, which runs in the frames
\* in which the fish's submission was queued
TailAfter(tail, drawn) ==
    IF tail = <<>> \/ ~drawn THEN tail ELSE <<tail[1] + 2>>

\* render(): the fish is updated and submitted, the other entities are
\* submitted, the queue is sorted and every item drawn
renderFrameWith(randX, randZ) ==
    \E rx \in randX, rz \in randZ :
        LET f == fishUpdate(fish, FishChunk, cam, rx, rz)
            subs == Submissions(f)
            queue == PushAll(<<>>, subs, cam, env.fogDensity)
            drawn == \E i \in 1..Len(queue) : queue[i].src = FishSrc
        IN  /\ fish' = f
            /\ tailPhase' = TailAfter(tailPhase, drawn)
            /\ \E sorted \in SortOutcomes(queue) :
                  /\ renderQueue' = sorted
                  /\ frameLog' = SubmitEvents(subs, env.fogDensity)
                                 \o DrawEvents(sorted, env.fogDensity)
            /\ UNCHANGED <<env, scene>>
            /\ UNCHANGED <<chunkVars, crabVars, projVars, physVars, chatVars>>

\* a frame of the scene
renderQueueFrame == renderFrameWith(FishRandX, FishRandZ)

\* values of randomRange(0, CHUNK_SIZE) for the z of the targets of a fish
\* that is followed from target to target: the two ends of the range
FishRandEnds == {0, CHUNK_SIZE - 1}

\* a frame of a scene that holds the fish only
fishFrame == renderFrameWith(FishRandX, FishRandEnds)

\* how far the tail of a fish is followed, in tenths
MaxTailPhase == 60

\* values of randomRange(0, CHUNK_SIZE) for the z of a fish that swims in and
\* out of the camera's view: 10 behind the camera's z and 100 ahead of it
TailRandZ == {2190, 2900}

\* the same for the z of its later targets: 20 behind the camera and 40 ahead
TailRandTargets == {2180, 2240}

\* values of randomRange(0, Math.PI * 2), in tenths
TailPhases == {0, 31}

\* a frame of a scene that holds the fish only, its tail followed
tailFrame ==
    /\ tailPhase[1] < MaxTailPhase
    /\ renderFrameWith(FishRandX, TailRandTargets)

\* the assistant's updateEnvironment call, between two frames
updateEnvironmentWith(hues, fogs, gravities) ==
    \E skyHue \in hues, fogDensity \in fogs, gravityMult \in gravities :
        /\ env' = updateEnvironmentTo(skyHue, fogDensity, gravityMult)
        /\ envArgs' = <<[skyHue |-> skyHue, fogDensity |-> fogDensity,
                         gravityMult |-> gravityMult]>>
        /\ textResponse' = <<"Environment Shifted", skyHue, fogDensity>>
        /\ UNCHANGED <<fish, scene, renderQueue, frameLog, tailPhase>>
        /\ UNCHANGED <<spawnArgs, holograms, imagesPending>>
        /\ UNCHANGED <<chunkVars, crabVars, projVars, physVars>>

\* the calls that change the fog, between the frames of the scene
updateEnvironment == updateEnvironmentWith(SkyHueArgs, FogDensityArgs, GravityMultArgs)

\* the arguments of the calls that are followed field by field: values inside
\* and outside the ranges the tool's description names
SkyHueAny == {Undefined, <<0, 1>>, <<120, 1>>, <<360, 1>>, <<400, 1>>, <<-30, 1>>}

FogDensityAny == {Undefined, <<1, 10>>, <<2, 1>>, <<0, 1>>, <<-1, 1>>, <<50, 1>>}

GravityMultAny == {Undefined, <<1, 10>>, <<2, 1>>, <<0, 1>>, <<-1, 1>>}

updateEnvironmentAny == updateEnvironmentWith(SkyHueAny, FogDensityAny, GravityMultAny)

\* a fish as generateChunk makes it, in the chunk at (0,-1)
GeneratedFish ==
    {[x |-> Num(FishChunk.xIndex * CHUNK_SIZE + rx),
      z |-> Num(FishChunk.zIndex * CHUNK_SIZE + rz),
      targetX |-> Num(FishChunk.xIndex * CHUNK_SIZE + rx + ox),
      targetZ |-> Num(FishChunk.zIndex * CHUNK_SIZE + rz + oz),
      speed |-> sp] :
        rx \in FishRandX, rz \in FishRandZ, ox \in FishTargetOffsetsX,
        oz \in FishTargetOffsets, sp \in FishSpeeds}

\* a fish as generateChunk makes it, behind or ahead of the camera
GeneratedTailFish ==
    {[x |-> Num(FishChunk.xIndex * CHUNK_SIZE + rx),
      z |-> Num(FishChunk.zIndex * CHUNK_SIZE + rz),
      targetX |-> Num(FishChunk.xIndex * CHUNK_SIZE + rx + ox),
      targetZ |-> Num(FishChunk.zIndex * CHUNK_SIZE + rz + oz),
      speed |-> sp] :
        rx \in FishRandX, rz \in TailRandZ, ox \in FishTargetOffsetsX,
        oz \in FishTargetOffsets, sp \in FishSpeeds}

\* ------------------------------------------------------------ projection
\* how many times the arguments of a projection are translated
MaxShifts == 2

\* the point relative to the camera in x and y only: z is left absolute
CameraSpaceFlat(point, cameraX, cameraY, cameraZ) ==
    [x |-> point.x - cameraX, y |-> point.y - cameraY, z |-> point.z]

\* the point relative to the camera: point.x - cameraX, point.y - cameraY,
\* point.z - cameraZ
CameraSpace(point, cameraX, cameraY, cameraZ) ==
    [x |-> point.x - cameraX, y |-> point.y - cameraY, z |-> point.z - cameraZ]

\* the depth without the focal length: floored at 1 at the camera's z
ProjDepthNoFocal(z, focalLength) == Max(1, z)

\* Math.max(1, z + focalLength)
ProjDepth(z, focalLength) == Max(1, z + focalLength)

\* project3DTo2D: scale and the screen coordinates are exact fractions
\* <<num, den>> in lowest terms, den > 0
project3DTo2D(point, cameraX, cameraY, cameraZ, centerX, centerY, focalLength) ==
    LET rel == CameraSpace(point, cameraX, cameraY, cameraZ)
        depth == ProjDepth(rel.z, focalLength)
        scale == Frac(focalLength, depth)
    IN  [x |-> Frac(centerX * scale[2] + rel.x * scale[1], scale[2]),
         y |-> Frac(centerY * scale[2] + rel.y * scale[1], scale[2]),
         scale |-> scale]

\* the result of the call with the arguments a
Projected(a) ==
    project3DTo2D(a.point, a.cameraX, a.cameraY, a.cameraZ,
                  a.centerX, a.centerY, a.focalLength)

\* the arguments a with the point and the camera moved by d
Translated(a, d) ==
    [a EXCEPT !.point = [x |-> a.point.x + d.x, y |-> a.point.y + d.y,
                         z |-> a.point.z + d.z],
              !.cameraX = a.cameraX + d.x,
              !.cameraY = a.cameraY + d.y,
              !.cameraZ = a.cameraZ + d.z]

\* the points, cameras, focal lengths and offsets the projection is applied to:
\* points 2000 and 300 behind the camera at z = -800, at its z, and 200 and
\* 3500 ahead of it
ProjPoints == {[x |-> x, y |-> y, z |-> z] :
                  x \in {-100, 250}, y \in {0, 1210},
                  z \in {-2800, -1100, -800, -600, 2700}}

ProjCameras == {[x |-> 0, y |-> 1210, z |-> -800], [x |-> 40, y |-> 900, z |-> -600]}

ProjFocalLengths == {1, 300, DEFAULT_FOCAL_LENGTH, 2000}

ProjOffsets == {[x |-> 3000, y |-> -50, z |-> -3000], [x |-> -7, y |-> 0, z |-> 1]}

ProjArgs ==
    {[point |-> p, cameraX |-> c.x, cameraY |-> c.y, cameraZ |-> c.z,
      centerX |-> 640, centerY |-> 360, focalLength |-> f] :
        p \in ProjPoints, c \in ProjCameras, f \in ProjFocalLengths}

\* a call of project3DTo2D
project ==
    /\ projOut = <<>>
    /\ projOut' = <<Projected(projArgs)>>
    /\ UNCHANGED <<projArgs, projPrev, projShifts>>
    /\ UNCHANGED <<chunkVars, renderVars, crabVars, physVars, chatVars>>

\* the same call with the point and the camera moved by one vector
projectTranslated ==
    /\ projOut # <<>>
    /\ projShifts < MaxShifts
    /\ \E d \in ProjOffsets :
          /\ projArgs' = Translated(projArgs, d)
          /\ projOut' = <<Projected(Translated(projArgs, d))>>
    /\ projPrev' = projOut
    /\ projShifts' = projShifts + 1
    /\ UNCHANGED <<chunkVars, renderVars, crabVars, physVars, chatVars>>

\* ------------------------------------------------------------ crabs
\* how many times a crab sets out
MaxCrabWalks == 2

\* a crab that walks on the spot
CrabStepNone(d, dist, speed) == 0

\* (d / dist) * speed for dist > 0, rounded onto the integer grid
CrabStep(d, dist, speed) == RoundDiv(d * speed, dist)

\* an arrival test at half the distance
ArrivedLate(distSq) == distSq < 5 * 5

\* dist < 10, on the square of the distance
Arrived(distSq) == distSq < 10 * 10

\* the crab update of one frame; ox, oz and timer are the values of
\* randomRange(-400, 400), randomRange(-200, 200) and randomRange(50, 200)
\* the frame uses if it draws them
crabUpdate(c, ox, oz, timer) ==
    IF c.state = "idle"
    THEN IF c.idleTimer - 1 <= 0
         THEN [c EXCEPT !.idleTimer = c.idleTimer - 1, !.state = "walking",
                        !.targetX = c.x + ox, !.targetZ = c.z + oz]
         ELSE [c EXCEPT !.idleTimer = c.idleTimer - 1]
    ELSE LET dx == c.targetX - c.x
             dz == c.targetZ - c.z
             distSq == dx * dx + dz * dz
             dist == ISqrt(distSq)
         IN  IF Arrived(distSq)
             THEN [c EXCEPT !.state = "idle", !.idleTimer = timer]
             ELSE [c EXCEPT !.x = c.x + CrabStep(dx, dist, c.speed),
                            !.z = c.z + CrabStep(dz, dist, c.speed)]

\* the chunk the crab lives in
CrabChunk == generateChunk(0, -1)

\* values of randomRange(0, CHUNK_SIZE) for a crab's position and first target
CrabRandPos == {1500}

CrabRandTarget == {100}

\* values of randomRange(1, 3)
CrabSpeeds == {1, 2}

\* values of randomRange(-400, 400) and randomRange(-200, 200)
CrabOffsetsX == {-400, -8, 399}

CrabOffsetsZ == {-200, 6}

\* values of randomRange(50, 200)
IdleTimers == {50, 199}

\* a crab as generateChunk makes it
GeneratedCrabs ==
    {[x |-> CrabChunk.xIndex * CHUNK_SIZE + r,
      z |-> CrabChunk.zIndex * CHUNK_SIZE + r,
      targetX |-> CrabChunk.xIndex * CHUNK_SIZE + t,
      targetZ |-> CrabChunk.zIndex * CHUNK_SIZE + t,
      speed |-> sp, state |-> "idle", idleTimer |-> 0] :
        r \in CrabRandPos, t \in CrabRandTarget, sp \in CrabSpeeds}

\* the crab is about to set out
SetsOut(c) == c.state = "idle" /\ c.idleTimer - 1 <= 0

\* render(): the update of the crab of a stored chunk, with the values its
\* randomRange calls return drawn from oxs, ozs and timers
crabFrameWith(oxs, ozs, timers) ==
    /\ SetsOut(crab) => crabWalks < MaxCrabWalks
    /\ \E ox \in oxs, oz \in ozs, timer \in timers :
          crab' = crabUpdate(crab, ox, oz, timer)
    /\ crabWalks' = IF SetsOut(crab) THEN crabWalks + 1 ELSE crabWalks
    /\ UNCHANGED <<chunkVars, renderVars, projVars, physVars, chatVars>>

crabFrame == crabFrameWith(CrabOffsetsX, CrabOffsetsZ, IdleTimers)

\* the values for a crab that is followed through whole walks and rests: a
\* walk of a single step and the longest walk, the shortest rest
WalkOffsetsX == {-8, 399}

WalkOffsetsZ == {6}

WalkIdleTimers == {50}

crabWalkFrame == crabFrameWith(WalkOffsetsX, WalkOffsetsZ, WalkIdleTimers)

\* ------------------------------------------------------------ camera physics
FRICTION == <<85, 100>>

ACCELERATION == <<3, 2>>

GRAVITY == <<4, 5>>

JUMP_FORCE == 18

FLOOR_LEVEL == 1350

PLAYER_HEIGHT == 140

\* how many frames the controls are followed for
MaxPhysFrames == 2

\* how far above the floor the camera is followed
MaxRise == 500

\* the fraction f in units of 1 / k
Scaled(f, k) == RoundDiv(f[1] * k, f[2])

\* the product of the fractions f and g in units of 1 / k
ScaledProduct(f, g, k) == RoundDiv(f[1] * g[1] * k, f[2] * g[2])

\* Math.max(lo, Math.min(hi, v))
Clamp(lo, hi, v) == Max(lo, Min(hi, v))

\* body.y and body.velY are in tenths, body.velX and body.velZ in hundredths,
\* body.rotationZ in units of 0.00001; the other fields are whole numbers
FloorY == (FLOOR_LEVEL - PLAYER_HEIGHT) * 10

BodyInit ==
    [y |-> FloorY, velY |-> 0, isGrounded |-> FALSE, velX |-> 0, velZ |-> 0,
     targetFocalLength |-> DEFAULT_FOCAL_LENGTH, focalLength |-> DEFAULT_FOCAL_LENGTH,
     lookX |-> 0, lookY |-> 0, rotationZ |-> 0]

\* keys.has(code) || ui[action]
Intent(codes, action) == (keys \cap codes) # {} \/ action \in ui

\* the controls ignore the chat panel
ActiveAlways(chatOpen) == TRUE

\* !isChatOpen
Active(chatOpen) == ~chatOpen

\* no gravity
GravityStepNone(g) == 0

\* GRAVITY * gravityMult, in tenths
GravityStep(g) == ScaledProduct(GRAVITY, g, 10)

\* a jump frame without that frame's gravity
JumpVelYWithoutGravity(velY, jumps, g) ==
    IF jumps THEN -JUMP_FORCE * Scaled(g, 10) ELSE velY + GravityStep(g)

\* velY after the jump impulse, if any, and the frame's gravity
JumpVelY(velY, jumps, g) ==
    (IF jumps THEN -JUMP_FORCE * Scaled(g, 10) ELSE velY) + GravityStep(g)

\* a floor test that also takes a camera exactly on the floor
LandedOrOn(y) == y >= FloorY

\* cam.y > floorY
Landed(y) == y > FloorY

\* section 1 of render(), Physics & Controls, on the fields of body
physicsStep(b) ==
    LET on == Active(isChatOpen)
        a == Scaled(ACCELERATION, 100)
        az == (IF on /\ Intent({"KeyW", "ArrowUp"}, "forward") THEN a ELSE 0)
              - (IF on /\ Intent({"KeyS", "ArrowDown"}, "backward") THEN a ELSE 0)
        ax == (IF on /\ Intent({"KeyD", "ArrowRight"}, "right") THEN a ELSE 0)
              - (IF on /\ Intent({"KeyA", "ArrowLeft"}, "left") THEN a ELSE 0)
        jumps == on /\ Intent({"Space"}, "jump") /\ b.isGrounded
        velY == JumpVelY(b.velY, jumps, env.gravityMult)
        zoomed == b.targetFocalLength
                  + (IF on /\ Intent({"KeyQ"}, "zoomIn") THEN 10 ELSE 0)
                  - (IF on /\ Intent({"KeyE"}, "zoomOut") THEN 10 ELSE 0)
        target == Clamp(300, 2000, zoomed)
        focal == b.focalLength + RoundDiv(target - b.focalLength, 10)
        velX == Clamp(-MAX_SPEED * 100, MAX_SPEED * 100, b.velX + ax)
        velZ == Clamp(-MAX_SPEED * 100, MAX_SPEED * 100, b.velZ + az)
        y == b.y + velY
        landed == Landed(y)
    IN  [y |-> IF landed THEN FloorY ELSE y,
         velY |-> IF landed THEN 0 ELSE velY,
         isGrounded |-> landed,
         velX |-> RoundDiv(velX * FRICTION[1], FRICTION[2]),
         velZ |-> RoundDiv(velZ * FRICTION[1], FRICTION[2]),
         targetFocalLength |-> target,
         focalLength |-> focal,
         lookX |-> IF on THEN b.lookX + RoundDiv(mouse.x * 600 - b.lookX, 10) ELSE b.lookX,
         lookY |-> IF on THEN b.lookY + RoundDiv(mouse.y * 400 - b.lookY, 10) ELSE b.lookY,
         rotationZ |-> b.rotationZ + RoundDiv(velX - b.rotationZ, 10)]

\* a frame of the camera's physics
physicsFrame ==
    /\ body.y >= FloorY - MaxRise * 10
    /\ body' = physicsStep(body)
    /\ UNCHANGED <<keys, ui, mouse, isChatOpen, physFrames>>
    /\ UNCHANGED <<chunkVars, renderVars, crabVars, projVars, chatVars>>

\* the same, for a bounded number of frames
physicsFrameCounted ==
    /\ physFrames < MaxPhysFrames
    /\ body.y >= FloorY - MaxRise * 10
    /\ body' = physicsStep(body)
    /\ physFrames' = physFrames + 1
    /\ UNCHANGED <<keys, ui, mouse, isChatOpen>>
    /\ UNCHANGED <<chunkVars, renderVars, crabVars, projVars, chatVars>>

\* handleKeyDown: ignored while the chat is open
handleKeyDown(codes) ==
    /\ \E code \in codes : keys' = IF isChatOpen THEN keys ELSE keys \cup {code}
    /\ UNCHANGED <<body, ui, mouse, isChatOpen, physFrames>>
    /\ UNCHANGED <<chunkVars, renderVars, crabVars, projVars, chatVars>>

\* handleKeyUp
handleKeyUp ==
    /\ \E code \in keys : keys' = keys \ {code}
    /\ UNCHANGED <<body, ui, mouse, isChatOpen, physFrames>>
    /\ UNCHANGED <<chunkVars, renderVars, crabVars, projVars, chatVars>>

\* setUiAction(action, active)
setUiAction(actions) ==
    /\ \E action \in actions, active \in BOOLEAN :
          ui' = IF active THEN ui \cup {action} ELSE ui \ {action}
    /\ UNCHANGED <<body, keys, mouse, isChatOpen, physFrames>>
    /\ UNCHANGED <<chunkVars, renderVars, crabVars, projVars, chatVars>>

\* pointer positions: the centre of the window and its top right corner
MousePositions == {[x |-> 0, y |-> 0], [x |-> 1, y |-> -1]}

\* handleMouseMove
handleMouseMove ==
    /\ \E m \in MousePositions : mouse' = m
    /\ UNCHANGED <<body, keys, ui, isChatOpen, physFrames>>
    /\ UNCHANGED <<chunkVars, renderVars, crabVars, projVars, chatVars>>

\* values of e.deltaY
WheelDeltas == {-1500}

\* handleWheel, for a targetFocalLength in the range the frames keep it in
handleWheel ==
    /\ body.targetFocalLength \in 300..2000
    /\ \E deltaY \in WheelDeltas :
          body' = [body EXCEPT !.targetFocalLength = body.targetFocalLength - deltaY]
    /\ UNCHANGED <<keys, ui, mouse, isChatOpen, physFrames>>
    /\ UNCHANGED <<chunkVars, renderVars, crabVars, projVars, chatVars>>

\* setIsChatOpen: the chat panel opens or closes; isChatOpen is a dependency
\* of the drawing effect, which runs again
setIsChatOpen ==
    /\ isChatOpen' = ~isChatOpen
    /\ lastChunkCheckX' = NoChunkCheck
    /\ lastChunkCheckZ' = NoChunkCheck
    /\ UNCHANGED <<cam, chunks, generated, evicted, syncCell, syncRan, prevSyncCell>>
    /\ UNCHANGED <<body, keys, ui, mouse, physFrames>>
    /\ UNCHANGED <<renderVars, crabVars, projVars, chatVars>>

\* the keys and buttons of a jump
JumpCodes == {"Space"}

JumpButtons == {"jump"}

\* the keys and buttons of the controls that are followed
ControlCodes == {"KeyW", "Space", "KeyQ"}

ControlButtons == {"left"}

\* values of gravityMult: the default, half, double, none, reversed
JumpGravities == {<<1, 1>>, <<1, 2>>, <<2, 1>>, <<0, 1>>, <<-1, 1>>}

\* no function call yet, no hologram
NoCall == <<>>

InitChatStill ==
    /\ envArgs = NoCall
    /\ spawnArgs = NoCall
    /\ textResponse = <<>>
    /\ holograms = <<>>
    /\ imagesPending = 0

\* the camera as constructed, no input
InitPhysStill ==
    /\ body = BodyInit
    /\ keys = {}
    /\ ui = {}
    /\ mouse = [x |-> 0, y |-> 0]
    /\ isChatOpen = FALSE
    /\ physFrames = 0

\* no crab is followed
InitCrabStill ==
    /\ crab = [x |-> 0, z |-> 0, targetX |-> 0, targetZ |-> 0, speed |-> 0,
               state |-> "idle", idleTimer |-> 0]
    /\ crabWalks = 0

InitCrab ==
    /\ crab \in GeneratedCrabs
    /\ crabWalks = 0

\* no projection is followed
InitProjStill ==
    /\ projArgs = [point |-> [x |-> 0, y |-> 0, z |-> 0], cameraX |-> 0,
                   cameraY |-> 0, cameraZ |-> 0, centerX |-> 0, centerY |-> 0,
                   focalLength |-> DEFAULT_FOCAL_LENGTH]
    /\ projOut = <<>>
    /\ projPrev = <<>>
    /\ projShifts = 0

InitProj ==
    /\ projArgs \in ProjArgs
    /\ projOut = <<>>
    /\ projPrev = <<>>
    /\ projShifts = 0

\* no fish, no scene: the render queue is not followed
InitRenderStill ==
    /\ env = EnvInit
    /\ fish = [x |-> NaN, z |-> NaN, targetX |-> NaN, targetZ |-> NaN, speed |-> 0]
    /\ scene = [pre |-> <<>>, post |-> <<>>]
    /\ renderQueue = <<>>
    /\ frameLog = <<>>
    /\ tailPhase = <<>>

InitRender ==
    /\ env = EnvInit
    /\ fish \in GeneratedFish
    /\ \E pre \in SeqsUpTo(ItemZs, 1), post \in SeqsUpTo(ItemZs, MaxScene) :
          /\ Len(pre) + Len(post) <= MaxScene
          /\ scene = [pre |-> [i \in 1..Len(pre) |-> Num(pre[i])],
                      post |-> [i \in 1..Len(post) |-> Num(post[i])]]
    /\ renderQueue = <<>>
    /\ frameLog = <<>>
    /\ tailPhase = <<>>

InitChunks ==
    /\ cam = [x |-> CamInitX, z |-> CamInitZ]
    /\ lastChunkCheckX = NoChunkCheck
    /\ lastChunkCheckZ = NoChunkCheck
    /\ chunks = <<>>
    /\ generated = {}
    /\ evicted = {}
    /\ syncCell = <<NoChunkCheck, NoChunkCheck>>
    /\ syncRan = FALSE
    /\ prevSyncCell = <<NoChunkCheck, NoChunkCheck>>

\* the chunk store on its own: an empty map and a camera at the world origin,
\* the starting point of the store's worked example
InitChunksUnit ==
    /\ cam = [x |-> 0, z |-> 0]
    /\ lastChunkCheckX = NoChunkCheck
    /\ lastChunkCheckZ = NoChunkCheck
    /\ chunks = <<>>
    /\ generated = {}
    /\ evicted = {}
    /\ syncCell = <<NoChunkCheck, NoChunkCheck>>
    /\ syncRan = FALSE
    /\ prevSyncCell = <<NoChunkCheck, NoChunkCheck>>

\* the chunk store streamed around the moving camera
Init == InitChunks /\ InitRenderStill /\ InitCrabStill /\ InitProjStill /\ InitPhysStill /\ InitChatStill

Next == renderChunks \/ effectRerun

Spec == Init /\ [][Next]_vars

InitUnit == InitChunksUnit /\ InitRenderStill /\ InitCrabStill /\ InitProjStill /\ InitPhysStill /\ InitChatStill

NextChunksUnit == renderChunksUnit \/ effectRerun

SpecChunksUnit == InitUnit /\ [][NextChunksUnit]_vars

\* the render queue of a camera standing at its starting point
InitRenderSpec == InitChunks /\ InitRender /\ InitCrabStill /\ InitProjStill /\ InitPhysStill /\ InitChatStill

NextRender == renderQueueFrame \/ updateEnvironment

SpecRender == InitRenderSpec /\ [][NextRender]_vars

\* project3DTo2D applied to bounded arguments and to their translations
InitProjSpec == InitChunks /\ InitRenderStill /\ InitCrabStill /\ InitProj /\ InitPhysStill /\ InitChatStill

NextProj == project \/ projectTranslated

SpecProj == InitProjSpec /\ [][NextProj]_vars

\* a fish alone in its chunk, swimming from target to target
InitFish ==
    /\ env = EnvInit
    /\ fish \in GeneratedFish
    /\ scene = [pre |-> <<>>, post |-> <<>>]
    /\ renderQueue = <<>>
    /\ frameLog = <<>>
    /\ tailPhase = <<>>

InitFishSpec == InitChunks /\ InitFish /\ InitCrabStill /\ InitProjStill /\ InitPhysStill /\ InitChatStill

NextFish == fishFrame

SpecFish == InitFishSpec /\ [][NextFish]_vars

\* a jump: the camera's physics with the jump key and button, under each
\* gravityMult
InitJump ==
    /\ env \in {[EnvInit EXCEPT !.gravityMult = g] : g \in JumpGravities}
    /\ fish = [x |-> NaN, z |-> NaN, targetX |-> NaN, targetZ |-> NaN, speed |-> 0]
    /\ scene = [pre |-> <<>>, post |-> <<>>]
    /\ renderQueue = <<>>
    /\ frameLog = <<>>
    /\ tailPhase = <<>>

\* the camera as constructed, or standing on the floor (where the frames under
\* a positive gravityMult put it, whatever gravityMult is set afterwards)
InitPhysJump ==
    /\ body \in {BodyInit, [BodyInit EXCEPT !.isGrounded = TRUE]}
    /\ keys = {}
    /\ ui = {}
    /\ mouse = [x |-> 0, y |-> 0]
    /\ isChatOpen = FALSE
    /\ physFrames = 0

InitJumpSpec == InitChunks /\ InitJump /\ InitCrabStill /\ InitProjStill /\ InitPhysJump /\ InitChatStill

NextJump ==
    \/ physicsFrame
    \/ handleKeyDown(JumpCodes)
    \/ handleKeyUp
    \/ setUiAction(JumpButtons)
    \/ setIsChatOpen

SpecJump == InitJumpSpec /\ [][NextJump]_vars

\* requestAnimationFrame keeps the frames coming
SpecJumpFair == SpecJump /\ WF_vars(physicsFrame)

\* the same frames and inputs, from the camera as constructed
InitFloorSpec == InitChunks /\ InitJump /\ InitCrabStill /\ InitProjStill /\ InitPhysStill /\ InitChatStill

NextFloor ==
    \/ physicsFrame
    \/ handleKeyDown(JumpCodes)
    \/ handleKeyUp
    \/ setUiAction(JumpButtons)
    \/ setIsChatOpen

SpecFloor == InitFloorSpec /\ [][NextFloor]_vars

\* the controls, for a few frames
NextControls ==
    \/ physicsFrameCounted
    \/ handleKeyDown(ControlCodes)
    \/ handleKeyUp
    \/ setUiAction(ControlButtons)
    \/ handleMouseMove
    \/ handleWheel
    \/ setIsChatOpen

SpecControls == Init /\ [][NextControls]_vars

\* the environment under the assistant's updateEnvironment calls, around a
\* camera that stands where it starts
NextEnv == updateEnvironmentAny \/ renderChunksStanding

SpecEnv == Init /\ [][NextEnv]_vars

\* a fish and its tail, frame after frame
InitTail ==
    /\ env = EnvInit
    /\ fish \in GeneratedTailFish
    /\ scene = [pre |-> <<>>, post |-> <<>>]
    /\ renderQueue = <<>>
    /\ frameLog = <<>>
    /\ tailPhase \in {<<t>> : t \in TailPhases}

InitTailSpec == InitChunks /\ InitTail /\ InitCrabStill /\ InitProjStill /\ InitPhysStill /\ InitChatStill

NextTail == tailFrame

SpecTail == InitTailSpec /\ [][NextTail]_vars

\* the assistant's spawnCreature calls around a camera that travels
NextSpawn == spawnCreature \/ renderChunksTrip \/ effectRerun

SpecSpawn == Init /\ [][NextSpawn]_vars

\* how far a hologram's fade is followed between the assistant's calls, in
\* units of 1/400
MaxFadeSeen == 8

\* the frames between which the assistant's calls arrive
assistFrame ==
    /\ \A i \in 1..Len(holograms) : holograms[i].opacity < MaxFadeSeen
    /\ hologramFrame

\* the frames and the three kinds of function call, in any order
NextAssist ==
    \/ assistFrame
    \/ updateEnvironment
    \/ spawnCreature
    \/ generateHologram
    \/ imageLoaded
    \/ imageFailed

SpecAssist == Init /\ [][NextAssist]_vars

\* the assistant's generateHologram calls and the frames that follow
NextHolo == generateHologram \/ imageLoaded \/ imageFailed \/ hologramFrame

SpecHolo == Init /\ [][NextHolo]_vars

\* requestAnimationFrame keeps the frames coming
SpecHoloFair == SpecHolo /\ WF_vars(hologramFrame)

\* a crab of a stored chunk, frame after frame
InitCrabSpec == InitChunks /\ InitRenderStill /\ InitCrab /\ InitProjStill /\ InitPhysStill /\ InitChatStill

NextCrab == crabFrame

SpecCrab == InitCrabSpec /\ [][NextCrab]_vars

\* whole walks and rests; requestAnimationFrame keeps the frames coming
NextCrabWalk == crabWalkFrame

SpecCrabFair == InitCrabSpec /\ [][NextCrabWalk]_vars /\ WF_vars(crabWalkFrame)

\* ------------------------------------------------------------ chunk store: properties
Cells == (-CellReach)..CellReach

\* Chebyshev distance between two cells
CellDist(x, z, cx, cz) == Max(Abs(x - cx), Abs(z - cz))

\* the cells at Chebyshev distance at most r from (cx, cz)
Ball(cx, cz, r) == {<<x, z>> \in Cells \X Cells : CellDist(x, z, cx, cz) <= r}

\* a manageChunks call has been made (the first frame has run)
Synced == syncCell # <<NoChunkCheck, NoChunkCheck>>

CamCellX == ChunkIndex(cam.x)

CamCellZ == ChunkIndex(cam.z)

\* C1: after every chunk sync, every cell within Chebyshev distance R of the
\* camera cell has a stored chunk and no stored chunk lies farther than R+1
\* from the camera cell (the sync runs in every frame, so this holds of every
\* state from the first frame on).
C1_RBallStoredNoneBeyond ==
    Synced =>
        /\ syncCell = <<CamCellX, CamCellZ>>
        /\ \A x \in Cells, z \in Cells :
              CellDist(x, z, CamCellX, CamCellZ) <= RENDER_DISTANCE_CHUNKS
                  => ChunkKey(x, z) \in DOMAIN chunks
        /\ \A k \in DOMAIN chunks :
              /\ k[1] \in Cells /\ k[2] \in Cells
              /\ chunks[k].xIndex = k[1] /\ chunks[k].zIndex = k[2]
              /\ CellDist(k[1], k[2], CamCellX, CamCellZ) <= RENDER_DISTANCE_CHUNKS + 1

\* C1 witness: a sync has evicted a chunk (the camera went three cells away
\* from a chunk it had generated) and generated new ones
C1_Witness == syncRan /\ evicted # {} /\ generated # {}

\* C2 as stated: after every sync the stored cells are exactly the (R+1)-ball
\* of the camera cell
C2_ExactlyOuterBall ==
    Synced => DOMAIN chunks = Ball(CamCellX, CamCellZ, RENDER_DISTANCE_CHUNKS + 1)

\* C2 amended: after every sync the stored cells are a subset of the
\* (R+1)-ball of the camera cell and a superset of its R-ball
C2_BetweenBalls ==
    Synced =>
        /\ Ball(CamCellX, CamCellZ, RENDER_DISTANCE_CHUNKS) \subseteq DOMAIN chunks
        /\ DOMAIN chunks \subseteq Ball(CamCellX, CamCellZ, RENDER_DISTANCE_CHUNKS + 1)

\* C2 witness: a store strictly between the two balls, after a sync
C2_Witness ==
    /\ syncRan
    /\ DOMAIN chunks # Ball(CamCellX, CamCellZ, RENDER_DISTANCE_CHUNKS)
    /\ DOMAIN chunks # Ball(CamCellX, CamCellZ, RENDER_DISTANCE_CHUNKS + 1)
    /\ Cardinality(DOMAIN chunks) > 9

\* a step in which manageChunks passed its early return: it recorded a new cell
TriggeredSyncStep ==
    /\ lastChunkCheckX' # NoChunkCheck
    /\ <<lastChunkCheckX', lastChunkCheckZ'>> # <<lastChunkCheckX, lastChunkCheckZ>>

\* a step that is a frame: after a frame lastChunkCheck holds a cell
FrameStep == lastChunkCheckX' # NoChunkCheck

ThreeByThree == {<<x, z>> : x \in {-1, 0, 1}, z \in {-1, 0, 1}}

\* C3: a triggered sync generates a chunk for exactly the cells within R of the
\* new camera cell that were not stored and evicts exactly the stored chunks
\* farther than R+1 from it; from an empty store a sync at (0,0) leaves exactly
\* the 9 cells {-1,0,1}x{-1,0,1}, and a following sync at (1,0) generates
\* exactly the three cells with x = 2 and evicts nothing.
C3_SyncDelta ==
    [][TriggeredSyncStep =>
        LET cx == ChunkIndex(cam'.x)
            cz == ChunkIndex(cam'.z)
            wanted == {k \in Ball(cx, cz, RENDER_DISTANCE_CHUNKS) : k \notin DOMAIN chunks}
            far == {k \in DOMAIN chunks :
                       CellDist(k[1], k[2], cx, cz) > RENDER_DISTANCE_CHUNKS + 1}
        IN  /\ generated' = wanted
            /\ evicted' = far
            /\ DOMAIN chunks' = ((DOMAIN chunks) \cup wanted) \ far
            /\ \A k \in (DOMAIN chunks) \ far : chunks'[k] = chunks[k]
            /\ (chunks = <<>> /\ cx = 0 /\ cz = 0) => DOMAIN chunks' = ThreeByThree
            /\ (DOMAIN chunks = ThreeByThree /\ cx = 1 /\ cz = 0) =>
                  /\ generated' = {<<2, -1>>, <<2, 0>>, <<2, 1>>}
                  /\ evicted' = {}
    ]_vars

\* C3 witness: the sync at (1,0) that follows the sync at (0,0) from an empty
\* store has generated the column x = 2
C3_Witness ==
    /\ syncRan
    /\ syncCell = <<1, 0>>
    /\ generated = {<<2, -1>>, <<2, 0>>, <<2, 1>>}
    /\ DOMAIN chunks = ThreeByThree \cup generated

\* C4: a manageChunks call made while the camera cell equals the cell of the
\* previous sync generates no chunk, evicts no chunk and leaves the store
\* unchanged (also when the effect was run again in between and the call is
\* not cut short by its early return).
C4_SameCellNoChange ==
    [][(FrameStep /\ Synced /\ syncCell = <<ChunkIndex(cam'.x), ChunkIndex(cam'.z)>>)
          => (generated' = {} /\ evicted' = {} /\ chunks' = chunks)
    ]_vars

\* C4 witness: a call in the cell of the previous sync that was cut short by
\* the early return, with a store holding more than the first nine chunks
C4_Witness ==
    /\ Synced
    /\ ~syncRan
    /\ lastChunkCheckX = CamCellX /\ lastChunkCheckZ = CamCellZ
    /\ Cardinality(DOMAIN chunks) > 9

\* ------------------------------------------------------------ render queue: properties
LogIndex == 1..Len(frameLog)

\* a > b on doubles: false when either is NaN
FGreaterThan(a, b) == ~IsNaN(a) /\ ~IsNaN(b) /\ Val(a) > Val(b)

\* a fraction <<num, den>>, den > 0, that is a number in [0, 1]
InUnitInterval(f) == ~IsNaN(f) /\ 0 <= f[1] /\ f[1] <= f[2]

\* C5: in every frame no draw runs before the last submission, and of two
\* queued items a and b with a.z > b.z, a is drawn before b.
C5_FarthestFirst ==
    \A i \in LogIndex, j \in LogIndex :
        /\ (frameLog[i].ev = "draw" /\ frameLog[j].ev = "submit") => j < i
        /\ (/\ frameLog[i].ev = "draw" /\ frameLog[j].ev = "draw"
            /\ FGreaterThan(frameLog[i].z, frameLog[j].z)) => i < j

\* C6: every item of the executed queue has 1 <= relativeZ <= VISIBILITY_DEPTH
\* (a submission outside that range is neither queued nor drawn).
C6_OnlyVisibleDepths ==
    /\ \A i \in 1..Len(renderQueue) :
          /\ ~IsNaN(renderQueue[i].z)
          /\ 1 <= Val(renderQueue[i].z)
          /\ Val(renderQueue[i].z) <= VISIBILITY_DEPTH
    /\ \A i \in LogIndex :
          frameLog[i].ev = "draw" =>
              /\ ~IsNaN(frameLog[i].z)
              /\ 1 <= Val(frameLog[i].z)
              /\ Val(frameLog[i].z) <= VISIBILITY_DEPTH

\* C7: every distance/fog factor handed to a draw callback lies in [0, 1],
\* whatever fogDensity the environment holds.  Stated of the items drawn at a
\* depth that is a number (the factor of an item at depth NaN is NaN, outside
\* [0, 1] as well).
C7_FogFactorInUnitInterval ==
    \A i \in LogIndex :
        (frameLog[i].ev = "draw" /\ ~IsNaN(frameLog[i].z))
            => InUnitInterval(frameLog[i].distFactor)

\* The three properties of the frames whose submissions are all numbers, with
\* fogDensity >= 0 for the factor: the cases the cull, the sort and the clamp
\* were written for.
RenderQueueOfNumbers ==
    (\A i \in LogIndex : ~IsNaN(frameLog[i].z)) =>
        /\ C5_FarthestFirst
        /\ C6_OnlyVisibleDepths
        /\ \A i \in LogIndex :
              (frameLog[i].ev = "draw" /\ frameLog[i].fogDensity[1] >= 0)
                  => InUnitInterval(frameLog[i].distFactor)
        /\ \A i \in LogIndex :
              frameLog[i].ev = "submit" =>
                  LET relZ == Val(frameLog[i].z) - cam.z
                      drawn == \E j \in LogIndex : /\ frameLog[j].ev = "draw"
                                                   /\ frameLog[j].src = frameLog[i].src
                  IN  drawn <=> (1 <= relZ /\ relZ <= VISIBILITY_DEPTH)

\* ------------------------------------------------------------ projection: properties
\* the relative z of the latest call
ProjRelZ == projArgs.point.z - projArgs.cameraZ

\* C8 as stated: for a point whose z equals the camera z the depth is floored
\* at 1, so the returned scale is focalLength / 1 = focalLength
C8_ScaleIsFocalAtCameraZ ==
    (projOut # <<>> /\ ProjRelZ = 0) => projOut[1].scale = <<projArgs.focalLength, 1>>

\* C8 amended: for a point whose z equals the camera z the depth is
\* max(1, focalLength), so for focalLength >= 1 the returned scale is 1 and
\* the screen position is the centre plus the camera-relative x and y; the
\* depth is floored at 1, and the scale equals focalLength, where
\* relativeZ + focalLength <= 1.
C8_UnitScaleAtCameraZ ==
    projOut # <<>> =>
        /\ (ProjRelZ = 0 /\ projArgs.focalLength >= 1) =>
              /\ projOut[1].scale = <<1, 1>>
              /\ projOut[1].x = <<projArgs.centerX + projArgs.point.x - projArgs.cameraX, 1>>
              /\ projOut[1].y = <<projArgs.centerY + projArgs.point.y - projArgs.cameraY, 1>>
        /\ (ProjRelZ + projArgs.focalLength <= 1) =>
              projOut[1].scale = <<projArgs.focalLength, 1>>

\* C8 witness: a projected point at the camera's z with the default focal
\* length, off the camera's axis
C8_Witness ==
    /\ projOut # <<>>
    /\ ProjRelZ = 0
    /\ projArgs.focalLength = DEFAULT_FOCAL_LENGTH
    /\ projArgs.point.x # projArgs.cameraX
    /\ projOut[1].scale = <<1, 1>>

\* C9: projecting p + d with the camera at c + d returns the same screen x, y
\* and scale as projecting p with the camera at c.
C9_TranslationInvariant ==
    projPrev # <<>> => projOut = projPrev

\* C9 witness: a point ahead of the camera and off its axis, projected at a
\* scale other than 1, and projected again after two translations
C9_Witness ==
    /\ projShifts = MaxShifts
    /\ projPrev # <<>>
    /\ projOut = projPrev
    /\ ProjRelZ > 0
    /\ projOut[1].scale # <<1, 1>>
    /\ projOut[1].x # <<projArgs.centerX, 1>>

\* ------------------------------------------------------------ crabs: properties
\* the square of the crab's planar distance to its target
CrabDistSq == (crab.targetX - crab.x) * (crab.targetX - crab.x)
              + (crab.targetZ - crab.z) * (crab.targetZ - crab.z)

\* C10: an idle crab whose idleTimer is 0 is walking after its next update,
\* with a target within 400 in x and 200 in z of its position; a walking crab
\* whose distance to its target is below 10 is idle after its next update,
\* with a strictly positive idleTimer, and has not moved.
C10_CrabStateMachine ==
    [][/\ (crab.state = "idle" /\ crab.idleTimer = 0) =>
              /\ crab'.state = "walking"
              /\ Abs(crab'.targetX - crab.x) <= 400
              /\ Abs(crab'.targetZ - crab.z) <= 200
              /\ crab'.x = crab.x /\ crab'.z = crab.z
       /\ (crab.state = "walking" /\ CrabDistSq < 10 * 10) =>
              /\ crab'.state = "idle"
              /\ crab'.idleTimer > 0
              /\ crab'.x = crab.x /\ crab'.z = crab.z
    ]_vars

\* C10 witness: a crab that set out from idleTimer 0, walked more than 10
\* away from where it was generated, arrived within 10 of its target and
\* went idle with a positive timer
C10_Witness ==
    /\ crabWalks >= 1
    /\ crab.state = "idle"
    /\ crab.idleTimer >= 50
    /\ CrabDistSq < 10 * 10
    /\ Abs(crab.x - 1500) > 10

\* C25: an idle crab is walking after finitely many frames (for as many walks
\* as are followed) and a walking crab is idle after finitely many frames; a
\* walking crab goes idle only from a distance below 10 to its target, and
\* each step of its walk brings it closer without taking it past the target
\* on either axis.
C25_CrabAlternates ==
    /\ (crab.state = "idle" /\ crabWalks < MaxCrabWalks) ~> (crab.state = "walking")
    /\ (crab.state = "walking") ~> (crab.state = "idle")
    /\ [][crab.state = "walking" =>
            IF crab'.state = "idle"
            THEN CrabDistSq < 10 * 10
            ELSE /\ (crab'.targetX - crab'.x) * (crab'.targetX - crab'.x)
                      + (crab'.targetZ - crab'.z) * (crab'.targetZ - crab'.z) < CrabDistSq
                 /\ (crab'.targetX - crab'.x) * (crab.targetX - crab.x) >= 0
                 /\ (crab'.targetZ - crab'.z) * (crab.targetZ - crab.z) >= 0
       ]_vars

\* C25 witness: the crab has set out as many times as are followed and has
\* arrived each time: it is idle again, within 10 of its latest target
C25_Witness ==
    /\ crabWalks = MaxCrabWalks
    /\ crab.state = "idle"
    /\ crab.idleTimer \in 1..49
    /\ CrabDistSq < 10 * 10

\* ------------------------------------------------------------ fish: properties
\* the square of the fish's planar distance to its target, for a fish whose
\* position is a number
FishDistSq ==
    (Val(fish.targetX) - Val(fish.x)) * (Val(fish.targetX) - Val(fish.x))
    + (Val(fish.targetZ) - Val(fish.z)) * (Val(fish.targetZ) - Val(fish.z))

\* the fish's position is a number
FishOnGrid == ~IsNaN(fish.x) /\ ~IsNaN(fish.z)

\* the target the fish has after the step lies in the bounds of its chunk
TargetInChunk ==
    /\ FishChunk.xIndex * CHUNK_SIZE <= Val(fish'.targetX)
    /\ Val(fish'.targetX) < FishChunk.xIndex * CHUNK_SIZE + CHUNK_SIZE
    /\ FishChunk.zIndex * CHUNK_SIZE <= Val(fish'.targetZ)
    /\ Val(fish'.targetZ) < FishChunk.zIndex * CHUNK_SIZE + CHUNK_SIZE

\* C11: an update of a fish whose planar distance to its target is below 20
\* leaves it with a target inside the bounds of the chunk that owns it; an
\* update of a fish whose distance is 20 or more leaves targetX and targetZ
\* unchanged.
C11_RetargetInsideChunk ==
    [][FishOnGrid =>
          /\ FishDistSq < 20 * 20 => TargetInChunk
          /\ FishDistSq >= 20 * 20 =>
                (fish'.targetX = fish.targetX /\ fish'.targetZ = fish.targetZ)
    ]_vars

\* C11 witness: the fish has swum to a target at the far edge of its chunk
\* and has been given a new one, at the near edge
C11_Witness ==
    /\ FishOnGrid
    /\ Val(fish.z) > FishChunk.zIndex * CHUNK_SIZE + CHUNK_SIZE - 40
    /\ Val(fish.targetZ) = FishChunk.zIndex * CHUNK_SIZE

\* C21: an update of a fish whose planar distance to its target is exactly 0
\* skips the move towards the target (z, which only that move writes, stays
\* as it was) and leaves a number in x and in z.
C21_ZeroDistanceGuard ==
    [][(FishOnGrid /\ FishDistSq = 0) =>
          /\ ~IsNaN(fish'.x)
          /\ ~IsNaN(fish'.z)
          /\ fish'.z = fish.z
    ]_vars

\* the fish's submission of the frame that ends in the step passed the cull
FishDrawn == ~Culled(FSub(fish'.z, Num(cam.z)))

\* C22 as stated: every frame leaves the fish's tailPhase greater than it was.
C22_TailAdvancesEveryFrame ==
    [][tailPhase # <<>> => tailPhase'[1] > tailPhase[1]]_vars

\* C22, amended: a frame in which the fish's submission passes the visibility
\* cull leaves its tailPhase greater by 0.2, a frame in which it is culled
\* leaves its tailPhase as it was, and no frame lowers or resets it.
C22_TailAdvancesWhenDrawn ==
    [][tailPhase # <<>> =>
          /\ FishDrawn => tailPhase'[1] = tailPhase[1] + 2
          /\ ~FishDrawn => tailPhase'[1] = tailPhase[1]
          /\ tailPhase'[1] >= tailPhase[1]
    ]_vars

\* C22 witness: a fish generated behind the camera has swum into view, its
\* tail has beaten, and it has swum out of view again
C22_Witness ==
    /\ tailPhase # <<>>
    /\ tailPhase[1] \notin TailPhases
    /\ FishOnGrid
    /\ Val(fish.z) - cam.z < 1

\* ------------------------------------------------------------ camera physics: properties
\* the step is a frame or changes nothing: no input handler ran
NoInputStep ==
    /\ keys' = keys /\ ui' = ui /\ mouse' = mouse /\ isChatOpen' = isChatOpen

\* the camera stands on the floor, the chat is closed and a jump is asked for
JumpAsked ==
    /\ body.isGrounded /\ body.velY = 0
    /\ ~isChatOpen
    /\ Intent({"Space"}, "jump")

\* C12 as stated: a frame with jump intent, from grounded at rest and with the
\* chat closed, leaves velY = -JUMP_FORCE * gravityMult and isGrounded cleared
C12_JumpLeavesImpulse ==
    [][(NoInputStep /\ JumpAsked) =>
          /\ body'.velY = -JUMP_FORCE * Scaled(env.gravityMult, 10)
          /\ ~body'.isGrounded
    ]_vars

\* C12 amended: such a frame leaves velY = (GRAVITY - JUMP_FORCE) * gravityMult
\* (the impulse plus the gravity of the same frame) and isGrounded cleared,
\* for gravityMult >= 0; for gravityMult < 0 the floor clamp of the same frame
\* leaves velY = 0 and isGrounded set.
C12_JumpLeavesImpulsePlusGravity ==
    [][(NoInputStep /\ JumpAsked) =>
          IF env.gravityMult[1] >= 0
          THEN /\ body'.velY = ScaledProduct(GRAVITY, env.gravityMult, 10)
                                - JUMP_FORCE * Scaled(env.gravityMult, 10)
               /\ body'.y = body.y + body'.velY
               /\ ~body'.isGrounded
          ELSE /\ body'.velY = 0
               /\ body'.y = FloorY
               /\ body'.isGrounded
    ]_vars

\* C12 witness: the camera right after the jump frame under the default
\* gravityMult: 17.2 above the floor with velY = -17.2
C12_Witness ==
    /\ env.gravityMult = <<1, 1>>
    /\ ~body.isGrounded
    /\ body.velY = -172
    /\ body.y = FloorY - 172

\* C13: under a positive gravityMult velY is strictly greater after every
\* frame that starts and ends airborne, and an airborne camera reaches a
\* frame in which the floor clamp sets isGrounded with velY = 0.
C13_FallsBackToFloor ==
    /\ [][(/\ env.gravityMult[1] > 0 /\ body' # body
            /\ ~body.isGrounded /\ ~body'.isGrounded) => body'.velY > body.velY]_vars
    /\ (env.gravityMult[1] > 0 /\ ~body.isGrounded)
          ~> (body.isGrounded /\ body.velY = 0 /\ body.y = FloorY)

\* C13 witness: the camera is falling, past the top of a jump
C13_Witness ==
    /\ env.gravityMult[1] > 0
    /\ ~body.isGrounded
    /\ body.velY > 0
    /\ body.y < FloorY - 1000

\* y after the frame's integration, before the floor test
IntegratedY ==
    body.y + JumpVelY(body.velY,
                      ~isChatOpen /\ Intent({"Space"}, "jump") /\ body.isGrounded,
                      env.gravityMult)

\* C23: a frame leaves y at most FLOOR_LEVEL - PLAYER_HEIGHT; it leaves
\* isGrounded true exactly if the y it integrated was greater than that, and
\* then y is that value and velY is 0; otherwise y is the integrated y.
C23_FloorClamp ==
    [][NoInputStep =>
          /\ body'.y <= FloorY
          /\ body'.isGrounded <=> IntegratedY > FloorY
          /\ body'.isGrounded => (body'.y = FloorY /\ body'.velY = 0)
          /\ ~body'.isGrounded => body'.y = IntegratedY
    ]_vars

\* C23 witness: the camera, constructed not grounded, stands grounded on the
\* floor with the jump key held under half gravity: a frame has clamped it
C23_Witness ==
    /\ body.isGrounded
    /\ body.y = FloorY
    /\ body.velY = 0
    /\ "Space" \in keys
    /\ env.gravityMult = <<1, 2>>

\* the step is a frame of the followed controls
CountedFrameStep == physFrames' # physFrames

\* C14: a frame run while the chat is open adds no acceleration to velX and
\* velZ (they are clamped and damped only), applies no jump impulse to a
\* grounded camera, changes targetFocalLength by the clamp only and leaves
\* lookX and lookY unchanged, whatever keys, buttons and pointer are active.
C14_ChatOpenIgnoresIntents ==
    [][(CountedFrameStep /\ isChatOpen) =>
          /\ body'.velX = RoundDiv(Clamp(-MAX_SPEED * 100, MAX_SPEED * 100, body.velX)
                                    * FRICTION[1], FRICTION[2])
          /\ body'.velZ = RoundDiv(Clamp(-MAX_SPEED * 100, MAX_SPEED * 100, body.velZ)
                                    * FRICTION[1], FRICTION[2])
          /\ body.isGrounded => (body'.isGrounded /\ body'.velY = 0 /\ body'.y = body.y)
          /\ body'.targetFocalLength = Clamp(300, 2000, body.targetFocalLength)
          /\ body'.lookX = body.lookX
          /\ body'.lookY = body.lookY
    ]_vars

\* C14 witness: the chat is open with every followed key and button held and
\* the pointer off centre; the camera accelerated forward for one frame, then
\* only slowed down, stands on the floor and looks straight ahead
C14_Witness ==
    /\ isChatOpen
    /\ physFrames = 2
    /\ keys = ControlCodes /\ ui = ControlButtons
    /\ mouse = [x |-> 1, y |-> -1]
    /\ body.velZ = 109 /\ body.velX = 0
    /\ body.lookX = 0 /\ body.lookY = 0
    /\ body.isGrounded

\* ------------------------------------------------------------ environment: properties
\* the step is an updateEnvironment call
EnvCallStep == envArgs' # envArgs \/ env' # env

\* the value a field has after a call that was given arg for it
Overwritten(arg, before) == IF arg # Undefined THEN arg ELSE before

\* C15: an updateEnvironment call stores each of skyHue, fogDensity and
\* gravityMult that it is given exactly as given, keeps the value of each field
\* it is not given, and leaves the chunks, the holograms and the camera
\* unchanged.
C15_PartialOverwrite ==
    [][EnvCallStep =>
          /\ env'.skyHue = Overwritten(envArgs'[1].skyHue, env.skyHue)
          /\ env'.fogDensity = Overwritten(envArgs'[1].fogDensity, env.fogDensity)
          /\ env'.gravityMult = Overwritten(envArgs'[1].gravityMult, env.gravityMult)
          /\ chunks' = chunks
          /\ holograms' = holograms
          /\ cam' = cam /\ body' = body
    ]_vars

\* C15 witness: after a sync, a call that gave gravityMult only has left a
\* fogDensity of -1 and a skyHue of 400, stored by earlier calls, in place
C15_Witness ==
    /\ syncRan
    /\ envArgs = <<[skyHue |-> Undefined, fogDensity |-> Undefined, gravityMult |-> <<0, 1>>]>>
    /\ env = [skyHue |-> <<400, 1>>, fogDensity |-> <<-1, 1>>, gravityMult |-> <<0, 1>>]

\* ------------------------------------------------------------ spawning: properties
\* the step is a function call or changes nothing: no frame ran and the
\* effect was not run again
NoFrameStep ==
    /\ cam' = cam
    /\ lastChunkCheckX' = lastChunkCheckX /\ lastChunkCheckZ' = lastChunkCheckZ
    /\ generated' = generated /\ evicted' = evicted
    /\ syncCell' = syncCell /\ syncRan' = syncRan

\* the key of the camera's cell
CamKey == ChunkKey(CamCellX, CamCellZ)

\* C16: a spawnCreature call made while no chunk is stored for the camera's
\* cell leaves the chunk store unchanged, adds no entity to any chunk, and
\* completes with the reply 'Could not spawn - no active chunk'.
C16_NoChunkNoSpawn ==
    [][(NoFrameStep /\ CamKey \notin DOMAIN chunks) =>
          /\ chunks' = chunks
          /\ Len(spawnArgs') = 1
          /\ Len(textResponse') = 1
          /\ textResponse'[1] = "Could not spawn - no active chunk"
    ]_vars

\* C16 witness: a call made before the first frame, with an empty store
C16_Witness ==
    /\ chunks = <<>>
    /\ Len(spawnArgs) = 1
    /\ spawnArgs[1].type = "fish"
    /\ Len(textResponse) = 1
    /\ textResponse[1] = "Could not spawn - no active chunk"

\* the entities of a kind that were added to a chunk
EntitiesOfKind(chunk, type) == IF type = "fish" THEN chunk.fishes ELSE chunk.crabs

\* C17: a spawnCreature(type, count) call made while the camera's cell has a
\* stored chunk adds exactly count entities of the requested kind to that
\* chunk and changes no other chunk, and a reply 'Spawned count type' means
\* that count entities were inserted.
C17_SpawnsCountOfKind ==
    [][(NoFrameStep /\ Len(spawnArgs') = 1 /\ CamKey \in DOMAIN chunks) =>
          LET type == spawnArgs'[1].type
              count == spawnArgs'[1].count[1]
              before == Len(EntitiesOfKind(chunks[CamKey], type))
              after == Len(EntitiesOfKind(chunks'[CamKey], type))
          IN  /\ DOMAIN chunks' = DOMAIN chunks
              /\ \A k \in (DOMAIN chunks) \ {CamKey} : chunks'[k] = chunks[k]
              /\ after = before + count
              /\ textResponse'[1] = "Spawned" =>
                    Len(chunks'[CamKey].fishes) + Len(chunks'[CamKey].crabs)
                        = Len(chunks[CamKey].fishes) + Len(chunks[CamKey].crabs) + count
    ]_vars

\* what the code does for fish: a spawnCreature('fish', count) call made while
\* the camera's cell has a stored chunk appends count fish to that chunk and
\* changes nothing else of the store
SpawnsFish ==
    [][(/\ NoFrameStep
        /\ Len(spawnArgs') = 1
        /\ CamKey \in DOMAIN chunks
        /\ spawnArgs'[1].type = "fish") =>
          /\ DOMAIN chunks' = DOMAIN chunks
          /\ \A k \in (DOMAIN chunks) \ {CamKey} : chunks'[k] = chunks[k]
          /\ Len(chunks'[CamKey].fishes) = Len(chunks[CamKey].fishes) + spawnArgs'[1].count[1]
          /\ chunks'[CamKey].crabs = chunks[CamKey].crabs
    ]_vars

\* ------------------------------------------------------------ holograms: fade-in
\* a hologram that is there
HoloIndices == 1..MaxHolograms

\* C18: a hologram is appended with opacity 0; from one frame to the next the
\* opacity of every hologram never decreases and never exceeds 1; every
\* hologram reaches opacity 1 after finitely many frames and keeps it.
C18_FadeInOnly ==
    /\ [][/\ Len(holograms') >= Len(holograms)
           /\ \A i \in 1..Len(holograms) :
                 /\ holograms'[i].opacity >= holograms[i].opacity
                 /\ [holograms'[i] EXCEPT !.opacity = 0] = [holograms[i] EXCEPT !.opacity = 0]
           /\ \A k \in (1..Len(holograms')) \ (1..Len(holograms)) :
                 holograms'[k].opacity = 0
       ]_vars
    /\ [](\A j \in 1..Len(holograms) : holograms[j].opacity \in 0..OpacityOne)
    /\ \A n \in HoloIndices :
          (Len(holograms) >= n) ~> [](Len(holograms) >= n /\ holograms[n].opacity = OpacityOne)

\* C18 witness: the first hologram has faded in completely while the second,
\* added later, is part of the way
C18_Witness ==
    /\ Len(holograms) = 2
    /\ holograms[1].opacity = OpacityOne
    /\ holograms[2].opacity > 0
    /\ holograms[2].opacity < OpacityOne

\* ------------------------------------------------------------ chunk store: residency
\* C19: a sync at the cell the camera was in before the cell it leaves (a
\* return from B to A after syncs at A and then B, the two a cell apart)
\* generates no chunk, evicts no chunk and leaves the store as it was.
C19_NoFlickerAcrossEdge ==
    [][(/\ TriggeredSyncStep
        /\ syncCell' = prevSyncCell
        /\ syncCell' # syncCell
        /\ CellDist(syncCell[1], syncCell[2], syncCell'[1], syncCell'[2]) = 1) =>
          /\ generated' = {}
          /\ evicted' = {}
          /\ chunks' = chunks
    ]_vars

\* C19 witness: the camera has gone from cell (0,-1) to (-1,-1) and back, and
\* the sync of its return found every chunk it needed, the column x = -2 of
\* the other cell still stored
C19_Witness ==
    /\ syncRan
    /\ syncCell = <<0, -1>>
    /\ prevSyncCell = <<-1, -1>>
    /\ generated = {} /\ evicted = {}
    /\ <<-2, -1>> \in DOMAIN chunks

\* C20: a sync generates chunks only for cells that have none, leaves every
\* chunk it does not evict as it was, with the entities it holds, and removes
\* an evicted chunk whole; a cell that is generated again starts from a new
\* chunk, without the entities of the evicted one.  A spawn neither adds nor
\* removes a chunk.
C20_OncePerResidency ==
    [][/\ TriggeredSyncStep =>
            /\ generated' \cap DOMAIN chunks = {}
            /\ \A k \in (DOMAIN chunks) \cap (DOMAIN chunks') : chunks'[k] = chunks[k]
            /\ \A k \in (DOMAIN chunks') \ (DOMAIN chunks) :
                  /\ k \in generated'
                  /\ chunks'[k] = generateChunk(k[1], k[2])
            /\ \A k \in (DOMAIN chunks) \ (DOMAIN chunks') : k \in evicted'
            /\ evicted' \cap DOMAIN chunks' = {}
       /\ ~TriggeredSyncStep => DOMAIN chunks' = DOMAIN chunks
    ]_vars

\* C20 witness: the chunk of cell (0,-1), evicted when the camera reached cell
\* (0,2), has been generated again on the camera's return to cell (0,0), and
\* holds none of the fish spawned into it or since
C20_Witness ==
    /\ syncRan
    /\ syncCell = <<0, 0>>
    /\ <<0, -1>> \in generated
    /\ chunks[<<0, -1>>].fishes = <<>>
    /\ CountFishes(chunks, DOMAIN chunks) > 0

\* a frame has completed
FrameDone == syncCell # <<NoChunkCheck, NoChunkCheck>>

\* C26: once a frame has completed, the chunk of the camera's cell is stored,
\* and every spawnCreature call made from then on is answered 'Spawned', never
\* 'Could not spawn - no active chunk'.
C26_CameraChunkStored ==
    /\ [](FrameDone => CamKey \in DOMAIN chunks)
    /\ [][(FrameDone /\ NoFrameStep /\ Len(spawnArgs') = 1) =>
            /\ Len(textResponse') >= 1
            /\ textResponse'[1] = "Spawned"
       ]_vars

\* C26 witness: the camera has moved on from the cell it started in, through
\* a re-run of the drawing effect, and a call there has put a fish into the
\* chunk of its new cell
C26_Witness ==
    /\ FrameDone
    /\ CamCellZ = 0
    /\ lastChunkCheckX = NoChunkCheck
    /\ Len(textResponse) >= 1
    /\ textResponse[1] = "Spawned"
    /\ Len(chunks[CamKey].fishes) > 0

\* ------------------------------------------------------------ assistant calls and frames
\* the step changed what only a frame changes: the sync's record, the camera,
\* the opacity of a hologram that was there
FrameTouched ==
    \/ ~NoFrameStep
    \/ \E i \in 1..Min(Len(holograms), Len(holograms')) :
          holograms'[i].opacity # holograms[i].opacity

\* the step was taken by the assistant's path (a function call was handled,
\* an image request settled) or applied a mutation of its: an environment
\* field was overwritten, a fish was pushed into a chunk, a hologram was
\* appended
AssistantApplied ==
    \/ envArgs' # envArgs
    \/ spawnArgs' # spawnArgs
    \/ textResponse' # textResponse
    \/ imagesPending' # imagesPending
    \/ env' # env
    \/ \E k \in (DOMAIN chunks) \cap (DOMAIN chunks') :
          Len(chunks'[k].fishes) > Len(chunks[k].fishes)
    \/ Len(holograms') > Len(holograms)

\* the sequence old is the start of the sequence new
IsPrefix(old, new) ==
    /\ Len(old) <= Len(new)
    /\ \A i \in 1..Len(old) : new[i] = old[i]

\* C24: a step of the assistant's path is not a frame: it
\* moves no camera, runs no sync and fades no hologram.  It keeps the chunk
\* map's keys, keeps every chunk's fishes at the start of its list behind what
\* it pushed and keeps the chunk otherwise, keeps the holograms at the start
\* of their list behind the one it appended, and overwrites only the
\* environment fields it was given.
C24_MutationsBetweenFrames ==
    [][AssistantApplied =>
          /\ ~FrameTouched
          /\ DOMAIN chunks' = DOMAIN chunks
          /\ \A k \in DOMAIN chunks :
                /\ IsPrefix(chunks[k].fishes, chunks'[k].fishes)
                /\ [chunks'[k] EXCEPT !.fishes = <<>>] = [chunks[k] EXCEPT !.fishes = <<>>]
          /\ IsPrefix(holograms, holograms')
          /\ env' # env =>
                /\ Len(envArgs') = 1
                /\ \A f \in {"skyHue", "fogDensity", "gravityMult"} :
                      envArgs'[1][f] = Undefined => env'[f] = env[f]
    ]_vars

\* C24 witness: between frames the fog was overwritten, two fish were pushed
\* into the camera's chunk by two calls and a second hologram was appended
\* behind one that has begun to fade in
C24_Witness ==
    /\ FrameDone
    /\ env.fogDensity = <<2, 1>>
    /\ Len(chunks[CamKey].fishes) = 2
    /\ Len(spawnArgs) = 1
    /\ spawnArgs[1].count = <<1, 1>>
    /\ Len(holograms) = 2
    /\ holograms[1].opacity > 0
    /\ holograms[2].opacity = 0

====
